---------------------------- MODULE Spec2Model ----------------------------
(***************************************************************************)
(* Model of the tank allocation (assign_to_tanks) and of the fixed-point   *)
(* loop of terminal_velocity of the centrifugal separation simulator.      *)
(*                                                                         *)
(* Assays, the error rate and the tank contents are exact rationals        *)
(* <<numerator, denominator>> kept in lowest terms with a positive         *)
(* denominator.  Densities are integers (kg/m3).                           *)
(***************************************************************************)
EXTENDS Integers, Sequences, FiniteSets, TLC

\* ------------------------------------------------------------------ bounds
\* Largest number of feed components of a run.
MaxComps == 4

\* Densities a feed component may have.  2000 -> 1700 is a relative gap of
\* exactly 0.15, 2000 -> 1800 -> 1700 is a chain of gaps below 0.15, and
\* 2000, 1700, 1000, 500 are four pairwise separated bands.
Densities == {2000, 1800, 1700, 1000, 500}

\* Assays (mass percent) a feed component may have.
Assays == {<<0, 1>>, <<25, 1>>}

\* Error rates inside [0,1): 0 (no contamination) and 1/10.
ErrorRates == {<<0, 1>>, <<1, 10>>}

\* Error rates a caller may also pass, outside [0,1): 1 and -1/4.
BadErrorRates == {<<1, 1>>, <<-1, 4>>}

\* --------------------------------------------------------------- rationals
Abs(x) == IF x < 0 THEN -x ELSE x

RECURSIVE GCD(_, _)
GCD(a, b) == IF b = 0 THEN a ELSE GCD(b, a % b)

\* The rational n/d in lowest terms with a positive denominator.
Rat(n, d) ==
    LET s == IF d < 0 THEN -1 ELSE 1
        g == GCD(Abs(n), Abs(d))
    IN  <<(s * n) \div g, (s * d) \div g>>

Zero == <<0, 1>>
Hundred == <<100, 1>>

\* Sums, differences, products and quotients of rationals in lowest terms;
\* common factors are cancelled before multiplying so that the intermediate
\* integers stay small.
RAdd(a, b) ==
    LET g == GCD(a[2], b[2])
    IN  Rat(a[1] * (b[2] \div g) + b[1] * (a[2] \div g), (a[2] \div g) * b[2])
RNeg(a) == <<0 - a[1], a[2]>>
RSub(a, b) == RAdd(a, RNeg(b))
\* With the crosswise common factors cancelled the product of two rationals
\* in lowest terms is in lowest terms.
RMul(a, b) ==
    LET g1 == GCD(Abs(a[1]), b[2])
        g2 == GCD(Abs(b[1]), a[2])
    IN  <<(a[1] \div g1) * (b[1] \div g2), (a[2] \div g2) * (b[2] \div g1)>>
\* a / b for b # 0
RDiv(a, b) ==
    RMul(a, IF b[1] < 0 THEN <<0 - b[2], 0 - b[1]>> ELSE <<b[2], b[1]>>)
RPos(a) == a[1] > 0
RLess(a, b) == RPos(RSub(b, a))

\* ------------------------------------------------------------------- state
VARIABLES
    densities,          \* argument: list of densities
    assay_percentages,  \* argument: list of assays, same length
    error_rate,         \* argument: the error rate
    pc,                 \* position of the call of assign_to_tanks
    sorted_data,        \* line 37
    clusters,           \* lines 42-52
    tanks,              \* lines 40, 54-77: tank id -> (density -> amount)
    tv_variant,         \* which source file's terminal_velocity runs
    tv_pc,              \* position of the call of terminal_velocity
    tv_iter,            \* iterations of its for loop begun so far
    tv_converged        \* whether the loop was left by break

vars == <<densities, assay_percentages, error_rate, pc, sorted_data, clusters,
          tanks, tv_variant, tv_pc, tv_iter, tv_converged>>

allocVars == <<densities, assay_percentages, error_rate, pc, sorted_data,
               clusters, tanks>>
solverVars == <<tv_variant, tv_pc, tv_iter, tv_converged>>

\* A python dict as a function; get(d, 0) of lines 64, 71 and 148.
EmptyDict == [d \in {} |-> Zero]
Get(m, d) == IF d \in DOMAIN m THEN m[d] ELSE Zero
\* m[d] = v, inserting the key when it is absent
Put(m, d, v) == [k \in DOMAIN m \cup {d} |-> IF k = d THEN v ELSE m[k]]

\* sum(tanks[tank_id].values())
RECURSIVE SumOver(_, _)
SumOver(m, keys) ==
    IF keys = {} THEN Zero
    ELSE LET d == CHOOSE k \in keys : TRUE
         IN  RAdd(m[d], SumOver(m, keys \ {d}))
Total(m) == SumOver(m, DOMAIN m)


\* ------------------------------------------------- assign_to_tanks, pure part
\* zip(densities, assay_percentages): pairs <<density, assay>>, as many as
\* the shorter list has.
Zip(ds, as) ==
    LET n == IF Len(ds) < Len(as) THEN Len(ds) ELSE Len(as)
    IN  [i \in 1..n |-> <<ds[i], as[i]>>]

\* The sort key of line 37: -x[0].
SortKey(x) == 0 - x[1]

\* x placed in the sorted list s behind every element whose key is not
\* larger than its own: what a stable sort does with a later element.
RECURSIVE InsertStable(_, _)
InsertStable(s, x) ==
    IF s = <<>> THEN <<x>>
    ELSE IF SortKey(Head(s)) <= SortKey(x)
         THEN <<Head(s)>> \o InsertStable(Tail(s), x)
         ELSE <<x>> \o s

\* sorted(data, key=lambda x: -x[0]), stable.
RECURSIVE Sorted(_)
Sorted(data) ==
    IF data = <<>> THEN <<>>
    ELSE InsertStable(Sorted(SubSeq(data, 1, Len(data) - 1)), data[Len(data)])

\* threshold = 0.15
Threshold == Rat(15, 100)

\* The test of line 47: abs(d - last) / last < threshold.
JoinsCluster(d, last) == RLess(Rat(Abs(d - last), last), Threshold)

\* Lines 45-52 from index i on: `done` are the clusters closed so far and
\* `current` is current_cluster.
RECURSIVE ClusterFrom(_, _, _, _)
ClusterFrom(sd, i, done, current) ==
    IF i > Len(sd) THEN Append(done, current)
    ELSE IF JoinsCluster(sd[i][1], current[Len(current)][1])
         THEN ClusterFrom(sd, i + 1, done, Append(current, sd[i]))
         ELSE ClusterFrom(sd, i + 1, Append(done, current), <<sd[i]>>)

\* clusters of lines 42-52, for a non-empty sorted list.
Clusters(sd) == ClusterFrom(sd, 2, <<>>, <<sd[1]>>)

\* tanks = {1: {}, 2: {}, 3: {}}
TankIds == {1, 2, 3}
EmptyTanks == [t \in TankIds |-> EmptyDict]

\* The inner loop of lines 56-57 for one cluster: tanks[tank_id][density] =
\* assay for its pairs from index j on.
RECURSIVE PutCluster(_, _, _)
PutCluster(m, cluster, j) ==
    IF j > Len(cluster) THEN m
    ELSE PutCluster(Put(m, cluster[j][1], cluster[j][2]), cluster, j + 1)

\* Lines 54-57 for the clusters from index idx on (1-based); tank_id is the
\* cluster's 1-based rank.  Stops before the first cluster whose tank_id is
\* no key of tanks, where tanks[tank_id] raises KeyError.
RECURSIVE AssignFrom(_, _, _)
AssignFrom(tks, cls, idx) ==
    IF idx > Len(cls) \/ idx \notin TankIds THEN tks
    ELSE AssignFrom([tks EXCEPT ![idx] = PutCluster(tks[idx], cls[idx], 1)],
                    cls, idx + 1)

AssignClusters(cls) == AssignFrom(EmptyTanks, cls, 1)

\* Whether line 57 raises KeyError: some cluster's tank_id is no key of tanks.
RaisesKeyError(cls) == \E idx \in 1..Len(cls) : idx \notin TankIds

\* Mutant of Misplaced: the rate is a fixed 1/10, whatever is passed.
MisplacedFixedRate(assay, e) == RMul(assay, <<1, 10>>)

\* misplaced = assay * error_rate
Misplaced(assay, e) == RMul(assay, e)

\* Mutant of Transfer: the receiving entry is overwritten with the misplaced
\* part instead of being increased by it.
TransferOverwrite(tks, src, dst, e) ==
    LET items == tks[src]
        keys  == DOMAIN items
    IN  [tks EXCEPT
           ![src] = [d \in keys |-> RSub(items[d], RMul(items[d], e))],
           ![dst] = [d \in DOMAIN tks[dst] \cup keys |->
                       IF d \in keys THEN RMul(items[d], e) ELSE tks[dst][d]]]

\* One iteration of the outer loop of lines 59-64 or 66-71: every entry of
\* the snapshot list(tanks[src].items()) loses its misplaced part, which is
\* added to the same key of tanks[dst] (created with get(density, 0)).
Transfer(tks, src, dst, e) ==
    LET items == tks[src]
        keys  == DOMAIN items
        misplaced == [d \in keys |-> Misplaced(items[d], e)]
    IN  [tks EXCEPT
           ![src] = [d \in keys |-> RSub(items[d], misplaced[d])],
           ![dst] = [d \in DOMAIN tks[dst] \cup keys |->
                       IF d \in keys
                       THEN RAdd(Get(tks[dst], d), misplaced[d])
                       ELSE tks[dst][d]]]

\* Lines 60-62 or 67-69 alone: the entries of tanks[src] lose their misplaced
\* part and no tank receives it.
Debit(tks, src, e) ==
    [tks EXCEPT ![src] = [d \in DOMAIN tks[src] |->
                            RSub(tks[src][d], Misplaced(tks[src][d], e))]]

\* Mutant of UpPass: the upward pass visits tank 2 before tank 3.
UpPassReversed == <<2, 3>>

\* for tank_id in [1, 2] (line 59) and for tank_id in [3, 2] (line 66)
DownPass == <<1, 2>>
UpPass == <<3, 2>>

\* The body of the loop of lines 59-64 for one tank_id.
DownStep(tks, tank_id, e) ==
    IF tank_id + 1 <= 3 THEN Transfer(tks, tank_id, tank_id + 1, e)
    ELSE Debit(tks, tank_id, e)

\* The body of the loop of lines 66-71 for one tank_id.
UpStep(tks, tank_id, e) ==
    IF tank_id - 1 >= 1 THEN Transfer(tks, tank_id, tank_id - 1, e)
    ELSE Debit(tks, tank_id, e)

\* Mutant of NormalizeTank: the share is not multiplied by 100.
NormalizeTankFraction(m) ==
    LET total == Total(m)
    IN  IF RPos(total) THEN [d \in DOMAIN m |-> RDiv(m[d], total)] ELSE m

\* Lines 74-77 for one tank.
NormalizeTank(m) ==
    LET total == Total(m)
    IN  IF RPos(total)
        THEN [d \in DOMAIN m |-> RMul(RDiv(m[d], total), Hundred)]
        ELSE m

\* Mutant of Normalize: the total is taken once, from tank 1, and used for
\* every tank.
NormalizeStaleTotal(tks) ==
    LET total == Total(tks[1])
    IN  [t \in TankIds |->
           IF RPos(total)
           THEN [d \in DOMAIN tks[t] |-> RMul(RDiv(tks[t][d], total), Hundred)]
           ELSE tks[t]]

\* Lines 73-77.
Normalize(tks) == [t \in TankIds |-> NormalizeTank(tks[t])]


\* ------------------------------------------------------- assign_to_tanks, run
\* The feeds of a run: between 1 and MaxComps components (the form asks for
\* at least one), each with a density and an assay.
Feeds(S) == UNION {[1..n -> S] : n \in 1..MaxComps}

SolverIdle ==
    /\ tv_variant = "none"
    /\ tv_pc = "idle"
    /\ tv_iter = 0
    /\ tv_converged = FALSE

\* A call assign_to_tanks(densities, assay_percentages, error_rate) with an
\* error rate of the set `rates`.
Called(rates) ==
    /\ densities \in Feeds(Densities)
    /\ assay_percentages \in [1..Len(densities) -> Assays]
    /\ error_rate \in rates
    /\ pc = "called"
    /\ sorted_data = <<>>
    /\ clusters = <<>>
    /\ tanks = EmptyTanks
    /\ SolverIdle

\* A call with an error rate in [0,1).
Init == Called(ErrorRates)

\* A call with any error rate: nothing in assign_to_tanks restricts it.
InitAnyRate == Called(ErrorRates \cup BadErrorRates)

\* Lines 37-52: sort, then cluster.
ClusterData ==
    /\ pc = "called"
    /\ sorted_data' = Sorted(Zip(densities, assay_percentages))
    /\ clusters' = Clusters(sorted_data')
    /\ pc' = "clustered"
    /\ UNCHANGED <<densities, assay_percentages, error_rate, tanks, solverVars>>

\* Lines 54-57 when every cluster has a tank.
AssignToTanks ==
    /\ pc = "clustered"
    /\ ~RaisesKeyError(clusters)
    /\ tanks' = AssignClusters(clusters)
    /\ pc' = "assigned"
    /\ UNCHANGED <<densities, assay_percentages, error_rate, sorted_data,
                   clusters, solverVars>>

\* Lines 54-57 when a fourth cluster exists: tanks[4] raises KeyError, which
\* nothing catches; the call ends without a result.
AssignKeyError ==
    /\ pc = "clustered"
    /\ RaisesKeyError(clusters)
    /\ tanks' = AssignClusters(clusters)
    /\ pc' = "KeyError"
    /\ UNCHANGED <<densities, assay_percentages, error_rate, sorted_data,
                   clusters, solverVars>>

\* Lines 59-64, first tank_id of the downward pass.
MoveDownFirst ==
    /\ pc = "assigned"
    /\ tanks' = DownStep(tanks, DownPass[1], error_rate)
    /\ pc' = "down1"
    /\ UNCHANGED <<densities, assay_percentages, error_rate, sorted_data,
                   clusters, solverVars>>

\* Lines 59-64, second tank_id of the downward pass.
MoveDownSecond ==
    /\ pc = "down1"
    /\ tanks' = DownStep(tanks, DownPass[2], error_rate)
    /\ pc' = "down2"
    /\ UNCHANGED <<densities, assay_percentages, error_rate, sorted_data,
                   clusters, solverVars>>

\* Lines 66-71, first tank_id of the upward pass.
MoveUpFirst ==
    /\ pc = "down2"
    /\ tanks' = UpStep(tanks, UpPass[1], error_rate)
    /\ pc' = "up1"
    /\ UNCHANGED <<densities, assay_percentages, error_rate, sorted_data,
                   clusters, solverVars>>

\* Lines 66-71, second tank_id of the upward pass.
MoveUpSecond ==
    /\ pc = "up1"
    /\ tanks' = UpStep(tanks, UpPass[2], error_rate)
    /\ pc' = "up2"
    /\ UNCHANGED <<densities, assay_percentages, error_rate, sorted_data,
                   clusters, solverVars>>

\* Lines 73-79: normalize every tank and return tanks.
NormalizeAndReturn ==
    /\ pc = "up2"
    /\ tanks' = Normalize(tanks)
    /\ pc' = "returned"
    /\ UNCHANGED <<densities, assay_percentages, error_rate, sorted_data,
                   clusters, solverVars>>

Next ==
    \/ ClusterData
    \/ AssignToTanks
    \/ AssignKeyError
    \/ MoveDownFirst
    \/ MoveDownSecond
    \/ MoveUpFirst
    \/ MoveUpSecond
    \/ NormalizeAndReturn

Spec == Init /\ [][Next]_vars

SpecAnyRate == InitAnyRate /\ [][Next]_vars


\* ---------------------------------------------------- terminal_velocity, run
\* range(100) of the for loop (app line 23, Centrifugal line 53)
MaxIter == 100

\* Mutant of HasNext: the loop runs one iteration more than range(100).
HasNextOffByOne(i) == i < MaxIter + 1

\* Whether the for loop has another iteration after i of them.
HasNext(i) == i < MaxIter

\* The two definitions of terminal_velocity.
Variants == {"centrifugal_separation_app", "Centrifugal"}

AllocIdle ==
    /\ densities = <<>>
    /\ assay_percentages = <<>>
    /\ error_rate = Zero
    /\ pc = "idle"
    /\ sorted_data = <<>>
    /\ clusters = <<>>
    /\ tanks = EmptyTanks

\* A call of terminal_velocity, about to enter its for loop.
SolverInit ==
    /\ AllocIdle
    /\ tv_variant \in Variants
    /\ tv_pc = "loop"
    /\ tv_iter = 0
    /\ tv_converged = FALSE

\* One iteration whose convergence test (app line 27, Centrifugal line 57) is
\* false: the guess is replaced and the loop goes on.  The floating-point
\* values are not modelled; either outcome of the test is possible in every
\* iteration.
SolverIterate ==
    /\ tv_pc = "loop"
    /\ HasNext(tv_iter)
    /\ tv_iter' = tv_iter + 1
    /\ UNCHANGED <<tv_variant, tv_pc, tv_converged, allocVars>>

\* One iteration whose convergence test is true: break, then return.
SolverBreak ==
    /\ tv_pc = "loop"
    /\ HasNext(tv_iter)
    /\ tv_iter' = tv_iter + 1
    /\ tv_converged' = TRUE
    /\ tv_pc' = "returned"
    /\ UNCHANGED <<tv_variant, allocVars>>

\* The range is exhausted: the loop ends and the function returns.
SolverExhausted ==
    /\ tv_pc = "loop"
    /\ ~HasNext(tv_iter)
    /\ tv_pc' = "returned"
    /\ UNCHANGED <<tv_variant, tv_iter, tv_converged, allocVars>>

SolverNext ==
    \/ SolverIterate
    \/ SolverBreak
    \/ SolverExhausted

\* The interpreter keeps executing a running call.
SolverSpec == SolverInit /\ [][SolverNext]_vars /\ WF_vars(SolverNext)


\* ------------------------------------------------------------------ claims
One == <<1, 1>>

\* error_rate in [0, 1)
InRange(e) == e[1] >= 0 /\ RLess(e, One)

\* The tanks right after the initial assignment of lines 54-57.
Assigned == AssignClusters(clusters)

\* The call has passed the initial assignment and not yet normalized.
Transferring == pc \in {"assigned", "down1", "down2", "up1", "up2"}

\* A one-component feed with positive assay and error_rate in [0,1) has
\* returned.
SingleReturned ==
    /\ pc = "returned"
    /\ Len(densities) = 1
    /\ RPos(assay_percentages[1])
    /\ InRange(error_rate)

\* C1 as stated: for a one-component feed with positive assay and error_rate
\* in [0,1), exactly one tank of the result is non-empty, it holds the
\* component at 100%, and the other two tanks hold no entry for it.
C1_ExactlyOneTank ==
    SingleReturned =>
        \E t \in TankIds :
            /\ DOMAIN tanks[t] = {densities[1]}
            /\ tanks[t][densities[1]] = Hundred
            /\ \A u \in TankIds \ {t} : densities[1] \notin DOMAIN tanks[u]

\* C1 amended: for a one-component feed with positive assay and error_rate
\* in [0,1), tank 1 of the result holds the component at 100%, and tanks 2 and
\* 3 each hold an entry for it too: at 100% when error_rate > 0, at 0 when
\* error_rate = 0.
C1_SingleComponent ==
    SingleReturned =>
        /\ \A t \in TankIds : DOMAIN tanks[t] = {densities[1]}
        /\ tanks[1][densities[1]] = Hundred
        /\ \A t \in {2, 3} :
              tanks[t][densities[1]] =
                  IF RPos(error_rate) THEN Hundred ELSE Zero

\* C1 witness: a one-component feed returned with error_rate 1/10 and the
\* component at 100% in tank 3.
C1_Witness ==
    /\ SingleReturned
    /\ error_rate = <<1, 10>>
    /\ tanks[3][densities[1]] = Hundred

\* C2 as stated: for error_rate in [0,1), every tank of the result that holds
\* at least one entry has percentages that sum to 100.
C2_NonEmptySumsTo100 ==
    (pc = "returned" /\ InRange(error_rate)) =>
        \A t \in TankIds :
            DOMAIN tanks[t] # {} => Total(tanks[t]) = Hundred

\* C2 amended: for error_rate in [0,1), every tank of the result whose total
\* is positive has percentages that sum to 100, and a tank whose total is not
\* positive keeps its entries, each of them 0.
C2_PositiveSumsTo100 ==
    (pc = "returned" /\ InRange(error_rate)) =>
        \A t \in TankIds :
            \/ Total(tanks[t]) = Hundred
            \/ \A d \in DOMAIN tanks[t] : tanks[t][d] = Zero

\* C2 witness: a result with a tank of two positive entries summing to 100
\* and another tank that holds entries, all 0.
C2_Witness ==
    /\ pc = "returned"
    /\ InRange(error_rate)
    /\ \E t, u \in TankIds :
          /\ Total(tanks[t]) = Hundred
          /\ \E d1, d2 \in DOMAIN tanks[t] :
                d1 # d2 /\ RPos(tanks[t][d1]) /\ RPos(tanks[t][d2])
          /\ DOMAIN tanks[u] # {}
          /\ \A d \in DOMAIN tanks[u] : tanks[u][d] = Zero

\* C3 as stated: with error_rate = 0 the result equals the initial cluster
\* assignment, normalized: same components listed in each tank, same
\* percentages, no component listed outside its cluster's tank.
C3_ZeroRateSameComposition ==
    (pc = "returned" /\ error_rate = Zero) => tanks = Normalize(Assigned)

\* C3 amended: with error_rate = 0 no assay moves: through the transfers every
\* entry of the initial assignment keeps its amount and in the result holds
\* that amount normalized, while every entry a tank gained for a component of
\* another tank holds 0.
C3_ZeroRateNoAssayMoves ==
    error_rate = Zero =>
        /\ Transferring =>
              LET A == Assigned
              IN  \A t \in TankIds : \A d \in DOMAIN tanks[t] :
                      tanks[t][d] = Get(A[t], d)
        /\ pc = "returned" =>
              LET A == Assigned
                  N == Normalize(A)
              IN  \A t \in TankIds :
                      /\ DOMAIN A[t] \subseteq DOMAIN tanks[t]
                      /\ \A d \in DOMAIN tanks[t] :
                            tanks[t][d] = Get(N[t], d)

\* C3 witness: a result for error_rate = 0 in which tank 2 holds its own
\* component at a positive percentage and lists a component of tank 1 at 0.
C3_Witness ==
    /\ pc = "returned"
    /\ error_rate = Zero
    /\ \E d \in DOMAIN Assigned[2] : RPos(tanks[2][d])
    /\ \E d \in DOMAIN tanks[2] \ DOMAIN Assigned[2] : tanks[2][d] = Zero


\* The relative density gap |d - prev| / prev is at least 0.15.
GapAtLeastThreshold(d, prev) == ~RLess(Rat(Abs(d - prev), prev), Threshold)

\* The clusters, one after the other.
RECURSIVE Flatten(_)
Flatten(cls) == IF cls = <<>> THEN <<>> ELSE Head(cls) \o Flatten(Tail(cls))

\* The 1-based rank of the cluster that holds position i of the sorted list:
\* one more than the number of positions 2..i that start a new cluster.
ClusterRank(sd, i) ==
    1 + Cardinality({j \in 2..i : GapAtLeastThreshold(sd[j][1], sd[j - 1][1])})

\* The clusters cut the sorted list exactly at the gaps of 0.15 or more
\* between neighbours.
ClusteredByGap ==
    /\ Flatten(clusters) = sorted_data
    /\ \A k \in 1..Len(clusters) : clusters[k] # <<>>
    /\ \A i \in 1..Len(sorted_data) :
          \E j \in 1..Len(clusters[ClusterRank(sorted_data, i)]) :
              clusters[ClusterRank(sorted_data, i)][j] = sorted_data[i]
    /\ Len(clusters) = ClusterRank(sorted_data, Len(sorted_data))

\* C4 as stated: a component starts a new cluster exactly when its relative
\* density gap to its predecessor in sorted order is >= 0.15, and after the
\* initial assignment the k-th cluster sits in tank k with its raw assays:
\* tank k holds, for each component of cluster k, that component's assay.
C4_ClustersPlacedRaw ==
    pc = "assigned" =>
        /\ ClusteredByGap
        /\ \A i \in 1..Len(sorted_data) :
              LET k == ClusterRank(sorted_data, i)
              IN  /\ k \in TankIds
                  /\ sorted_data[i][1] \in DOMAIN tanks[k]
                  /\ tanks[k][sorted_data[i][1]] = sorted_data[i][2]

\* C5 as stated: every call completes, also with more than three clusters,
\* and returns a mapping with the tank ids 1, 2, 3 in which the components of
\* the 4th and later clusters sit in tank 3.
C5_ExcessClustersFolded ==
    /\ pc # "KeyError"
    /\ pc = "returned" =>
          /\ DOMAIN tanks = TankIds
          /\ \A k \in 4..Len(clusters) : \A j \in 1..Len(clusters[k]) :
                clusters[k][j][1] \in DOMAIN tanks[3]

\* The number of entries the three tanks hold together.
EntryCount ==
    Cardinality(DOMAIN tanks[1]) + Cardinality(DOMAIN tanks[2])
        + Cardinality(DOMAIN tanks[3])

\* C6 as stated: after the initial assignment every input component, also
\* one whose density another component shares, has its own entry with its
\* own assay in its cluster's tank; ties stay in input order and no entry is
\* overwritten by or merged with another component's.
C6_KeyedByComponent ==
    pc = "assigned" =>
        /\ EntryCount = Len(densities)
        /\ \A i, j \in 1..Len(densities) :
              (i < j /\ densities[i] = densities[j]) =>
                  \E a, b \in 1..Len(sorted_data) :
                      /\ a < b
                      /\ sorted_data[a] = <<densities[i], assay_percentages[i]>>
                      /\ sorted_data[b] = <<densities[j], assay_percentages[j]>>
        /\ \A i \in 1..Len(densities) :
              \E t \in TankIds :
                  /\ densities[i] \in DOMAIN tanks[t]
                  /\ tanks[t][densities[i]] = assay_percentages[i]

\* C7 as stated: a call with error_rate outside [0,1) ends with an
\* InvalidParameter error and returns no tank composition.
C7_RejectsBadErrorRate ==
    ~InRange(error_rate) => pc # "returned"

\* The change from tanks `old` to tanks `new` is one transfer from tank src
\* to tank dst: each entry of src gives up e times the amount it holds in
\* `old`, the same key of dst grows by exactly that, nothing else changes.
MovedFrom(old, new, src, dst, e) ==
    /\ DOMAIN new[src] = DOMAIN old[src]
    /\ DOMAIN new[dst] = DOMAIN old[dst] \cup DOMAIN old[src]
    /\ \A d \in DOMAIN old[src] :
          /\ new[src][d] = RSub(old[src][d], RMul(e, old[src][d]))
          /\ new[dst][d] = RAdd(Get(old[dst], d), RMul(e, old[src][d]))
    /\ \A d \in DOMAIN old[dst] \ DOMAIN old[src] : new[dst][d] = old[dst][d]
    /\ \A t \in TankIds \ {src, dst} : new[t] = old[t]

\* C9: the four transfers happen in the order 1 -> 2, 2 -> 3, 3 -> 2, 2 -> 1,
\* each moving error_rate times the amount the source tank holds when that
\* transfer starts.
C9_SequentialTransfers ==
    [][/\ pc = "assigned" => MovedFrom(tanks, tanks', 1, 2, error_rate)
       /\ pc = "down1" => MovedFrom(tanks, tanks', 2, 3, error_rate)
       /\ pc = "down2" => MovedFrom(tanks, tanks', 3, 2, error_rate)
       /\ pc = "up1" => MovedFrom(tanks, tanks', 2, 1, error_rate)]_vars

\* C9 witness: after the four transfers at a positive rate, tank 3 holds a
\* positive amount of a component first assigned to tank 1: the transfer
\* 2 -> 3 moved part of what tank 2 had just received, where error_rate
\* times tank 2's original amount of it would have been 0.
C9_Witness ==
    /\ pc = "up2"
    /\ InRange(error_rate)
    /\ \E d \in DOMAIN Assigned[1] :
          /\ d \notin DOMAIN Assigned[2]
          /\ d \notin DOMAIN Assigned[3]
          /\ RPos(Get(tanks[3], d))
          /\ Get(tanks[2], d) # RMul(error_rate, Assigned[1][d])

\* The densities of the feed are pairwise distinct.
DistinctDensities ==
    \A i, j \in 1..Len(densities) : densities[i] = densities[j] => i = j

\* The amount the three tanks hold together under key d.
HeldTotal(d) == RAdd(Get(tanks[1], d), RAdd(Get(tanks[2], d), Get(tanks[3], d)))

\* C10: for error_rate in [0,1) and pairwise distinct densities in at most
\* three clusters, after the initial assignment and after each of the four
\* transfers the tanks together hold exactly each component's input assay.
C10_AssayConserved ==
    (Transferring /\ InRange(error_rate) /\ DistinctDensities) =>
        \A i \in 1..Len(densities) :
            HeldTotal(densities[i]) = assay_percentages[i]

\* C10 witness: after the fourth transfer, three components of distinct
\* densities in three clusters, one of them spread over all three tanks.
C10_Witness ==
    /\ pc = "up2"
    /\ error_rate = <<1, 10>>
    /\ DistinctDensities
    /\ Len(clusters) = 3
    /\ \E i \in 1..Len(densities) :
          \A t \in TankIds : RPos(Get(tanks[t], densities[i]))

\* C8: the for loop of terminal_velocity never begins more than 100
\* iterations, and every call returns, whether it left the loop by break or
\* by exhausting the range.
C8_SolverTerminates ==
    /\ [](tv_iter <= 100)
    /\ <>(tv_pc = "returned")

\* C8 witness: a call that returned after 100 iterations without the
\* convergence test ever being met.
C8_Witness ==
    /\ tv_pc = "returned"
    /\ tv_iter = 100
    /\ ~tv_converged

=============================================================================
